---- MODULE Spec2Model ----
(***************************************************************************)
(* Model of the SMA crossover strategy, its backtest and its metrics       *)
(* (src/src/utils/strategies.py) as a state machine.                       *)
(*                                                                         *)
(* Numbers.  A pandas float cell is modelled as a record [n, d]:           *)
(*   d > 0          the exact rational n/d in lowest terms,                *)
(*   d = 0, n = 0   NaN (the "undefined" marker of the columns),           *)
(*   d = 0, n = +-1 +inf / -inf (what a division by zero yields).          *)
(* Arithmetic is exact; binary rounding of float64 is not modelled.        *)
(*                                                                         *)
(* Series.  A column is a sequence; bar i of the source (0-based) is       *)
(* element i+1 of the sequence.                                            *)
(*                                                                         *)
(* Pages.  st.session_state is a function from the keys present to their   *)
(* values; one run of a page script is one action, and screen records what *)
(* that run did and rendered (its locals are gone when it ends).           *)
(***************************************************************************)
EXTENDS Integers, Sequences, FiniteSets, TLC

VARIABLES data, short_period, long_period, transaction_cost, pc, df, metrics,
          returns_in, additional, app_result, session_state, screen

vars == <<data, short_period, long_period, transaction_cost, pc, df, metrics,
          returns_in, additional, app_result, session_state, screen>>

\* what the Streamlit pages and app.py hold; untouched by the strategy calls
ui == <<app_result, session_state, screen>>

-----------------------------------------------------------------------------
(* Bounds of the explored inputs *)

MaxLen == 4

MaxPeriod == 3

-----------------------------------------------------------------------------
(* Float cells *)

NaN == [n |-> 0, d |-> 0]

IsNaN(x) == x.d = 0 /\ x.n = 0

IsInf(x) == x.d = 0 /\ x.n # 0

IsFinite(x) == x.d > 0

AbsInt(k) == IF k < 0 THEN -k ELSE k

SignInt(k) == IF k < 0 THEN -1 ELSE IF k > 0 THEN 1 ELSE 0

RECURSIVE GCD(_, _)
GCD(a, b) == IF b = 0 THEN a ELSE GCD(b, a % b)

\* the rational n/d (d # 0) in lowest terms with a positive denominator
Rat(n, d) ==
    LET g == GCD(AbsInt(n), AbsInt(d))
        s == IF d < 0 THEN -1 ELSE 1
    IN  [n |-> s * (n \div g), d |-> s * (d \div g)]

Int2F(k) == [n |-> k, d |-> 1]

Zero == Int2F(0)

One == Int2F(1)

Neg(a) == [n |-> -a.n, d |-> a.d]

Add(a, b) ==
    IF IsNaN(a) \/ IsNaN(b) THEN NaN
    ELSE IF IsInf(a) /\ IsInf(b) THEN (IF a.n = b.n THEN a ELSE NaN)
    ELSE IF IsInf(a) THEN a
    ELSE IF IsInf(b) THEN b
    ELSE Rat(a.n * b.d + b.n * a.d, a.d * b.d)

Sub(a, b) == Add(a, Neg(b))

Mul(a, b) ==
    IF IsNaN(a) \/ IsNaN(b) THEN NaN
    ELSE IF IsInf(a) \/ IsInf(b)
         THEN (IF a.n = 0 \/ b.n = 0 THEN NaN
               ELSE [n |-> SignInt(a.n) * SignInt(b.n), d |-> 0])
    ELSE Rat(a.n * b.n, a.d * b.d)

Div(a, b) ==
    IF IsNaN(a) \/ IsNaN(b) THEN NaN
    ELSE IF IsInf(b) THEN (IF IsInf(a) THEN NaN ELSE Zero)
    ELSE IF b.n = 0 THEN (IF a.n = 0 THEN NaN ELSE [n |-> SignInt(a.n), d |-> 0])
    ELSE IF IsInf(a) THEN [n |-> SignInt(a.n) * SignInt(b.n), d |-> 0]
    ELSE Mul(a, Rat(b.d, b.n))

AbsF(a) == [n |-> AbsInt(a.n), d |-> a.d]

\* a < b as floats compare: FALSE whenever a NaN is involved
Lt(a, b) ==
    /\ ~IsNaN(a)
    /\ ~IsNaN(b)
    /\ IF IsInf(a) THEN a.n < 0 /\ ~(IsInf(b) /\ b.n < 0)
       ELSE IF IsInf(b) THEN b.n > 0
       ELSE a.n * b.d < b.n * a.d

Gt(a, b) == Lt(b, a)

Le(a, b) == ~IsNaN(a) /\ ~IsNaN(b) /\ ~Lt(b, a)

-----------------------------------------------------------------------------
(* Series helpers (pandas) *)

RECURSIVE SumRange(_, _, _)
SumRange(s, lo, hi) == IF lo > hi THEN Zero ELSE Add(s[lo], SumRange(s, lo + 1, hi))

\* variant: a centred window, which reads the next bar's close
RollingMean_Ahead(close, w) ==
    [k \in 1..Len(close) |->
        IF k + 1 < w \/ k + 1 > Len(close) THEN NaN
        ELSE Div(SumRange(close, k - w + 2, k + 1), Int2F(w))]

\* variant: min_periods = 1, the mean of the bars seen so far while fewer than w
RollingMean_Partial(close, w) ==
    [k \in 1..Len(close) |->
        IF k < w THEN Div(SumRange(close, 1, k), Int2F(k))
        ELSE Div(SumRange(close, k - w + 1, k), Int2F(w))]

\* Series.rolling(window=w).mean(): min_periods = w, NaN until w values seen
RollingMean(close, w) ==
    [k \in 1..Len(close) |->
        IF k < w THEN NaN ELSE Div(SumRange(close, k - w + 1, k), Int2F(w))]

\* Series.shift(1): first cell NaN, every other cell the previous one
Shift1(s) == [k \in 1..Len(s) |-> IF k = 1 THEN NaN ELSE s[k - 1]]

\* Series.fillna(v)
FillNa(s, v) == [k \in 1..Len(s) |-> IF IsNaN(s[k]) THEN v ELSE s[k]]

-----------------------------------------------------------------------------
(* SMAStrategy.generate_signals *)

SmaColumn(frame, period) ==
    IF period \in DOMAIN frame.SMA
    THEN frame.SMA[period]
    ELSE RollingMean(frame.Close, period)

\* variant: long/flat polarity, below is flat instead of short
SignalOf_LongOnly(s, l) == IF Gt(s, l) THEN Int2F(1) ELSE Zero

\* variant: >= for >, equal averages read as a buy
SignalOf_NonStrict(s, l) == IF Le(l, s) THEN Int2F(1) ELSE IF Lt(s, l) THEN Int2F(-1) ELSE Zero

\* variant: two-valued, whatever is not above is short
SignalOf_Binary(s, l) == IF Gt(s, l) THEN Int2F(1) ELSE Int2F(-1)

SignalOf(s, l) == IF Gt(s, l) THEN Int2F(1) ELSE IF Lt(s, l) THEN Int2F(-1) ELSE Zero

\* variant: the signal acted on in its own bar, the lag dropped
PositionOf_NoLag(signal) == FillNa(signal, Zero)

PositionOf(signal) == FillNa(Shift1(signal), Zero)

\* variant: df = data, the columns written to the caller's frame itself
CallerFrameAfterSignals_InPlace(frame, result) == result @@ [SMA |-> frame.SMA]

\* df = data.copy(): every column is written to the copy, the caller's frame
\* is after the call what it was before
CallerFrameAfterSignals(frame, result) == frame

generate_signals(frame, sp, lp) ==
    LET sma_short == SmaColumn(frame, sp)
        sma_long  == SmaColumn(frame, lp)
        signal    == [k \in 1..Len(frame.Close) |-> SignalOf(sma_short[k], sma_long[k])]
    IN  [Close     |-> frame.Close,
         SMA_short |-> sma_short,
         SMA_long  |-> sma_long,
         Signal    |-> signal,
         Position  |-> PositionOf(signal)]

-----------------------------------------------------------------------------
(* SMAStrategy.backtest *)

\* Series.pct_change(): NaN at the first bar, then s[i]/s[i-1] - 1
PctChange(s) ==
    [k \in 1..Len(s) |-> IF k = 1 THEN NaN ELSE Sub(Div(s[k], s[k - 1]), One)]

\* Series.diff(): NaN at the first bar, then s[i] - s[i-1]
Diff(s) == [k \in 1..Len(s) |-> IF k = 1 THEN NaN ELSE Sub(s[k], s[k - 1])]

AbsSeries(s) == [k \in 1..Len(s) |-> AbsF(s[k])]

MulSeries(a, b) == [k \in 1..Len(a) |-> Mul(a[k], b[k])]

SubSeries(a, b) == [k \in 1..Len(a) |-> Sub(a[k], b[k])]

DivSeries(a, b) == [k \in 1..Len(a) |-> Div(a[k], b[k])]

Scale(s, c) == [k \in 1..Len(s) |-> Mul(s[k], c)]

OnePlus(s) == [k \in 1..Len(s) |-> Add(One, s[k])]

MinusOne(s) == [k \in 1..Len(s) |-> Sub(s[k], One)]

\* Series.cumprod() (skipna): a NaN cell stays NaN and is skipped by the product
RECURSIVE ProdTo(_, _)
ProdTo(s, k) ==
    IF k = 0 THEN One
    ELSE LET prev == ProdTo(s, k - 1)
         IN  IF IsNaN(s[k]) THEN prev ELSE Mul(prev, s[k])

\* variant: cumprod(skipna=False), a NaN poisons every later product
CumProd_PropagateNaN(s) ==
    [k \in 1..Len(s) |-> IF \E j \in 1..k : IsNaN(s[j]) THEN NaN ELSE ProdTo(s, k)]

CumProd(s) == [k \in 1..Len(s) |-> IF IsNaN(s[k]) THEN NaN ELSE ProdTo(s, k)]

MaxF(a, b) == IF Lt(a, b) THEN b ELSE a

MinF(a, b) == IF Lt(b, a) THEN b ELSE a

\* Series.cummax() (skipna): a NaN cell stays NaN and is skipped by the maximum
RECURSIVE MaxTo(_, _)
MaxTo(s, k) ==
    IF k = 0 THEN NaN
    ELSE LET prev == MaxTo(s, k - 1)
         IN  IF IsNaN(s[k]) THEN prev
             ELSE IF IsNaN(prev) THEN s[k]
             ELSE MaxF(prev, s[k])

CumMax(s) == [k \in 1..Len(s) |-> IF IsNaN(s[k]) THEN NaN ELSE MaxTo(s, k)]

\* Series.min() / Series.max() (skipna): NaN when no cell is defined
RECURSIVE MinTo(_, _)
MinTo(s, k) ==
    IF k = 0 THEN NaN
    ELSE LET prev == MinTo(s, k - 1)
         IN  IF IsNaN(s[k]) THEN prev
             ELSE IF IsNaN(prev) THEN s[k]
             ELSE MinF(prev, s[k])

SeriesMin(s) == MinTo(s, Len(s))

SeriesMax(s) == MaxTo(s, Len(s))

\* variant: the undefined cells kept
DropNa_Keep(s) == s

\* Series.dropna()
RECURSIVE DropNa(_)
DropNa(s) ==
    IF s = <<>> THEN <<>>
    ELSE IF IsNaN(Head(s)) THEN DropNa(Tail(s))
    ELSE <<Head(s)>> \o DropNa(Tail(s))

RECURSIVE SeriesSum(_)
SeriesSum(s) == IF s = <<>> THEN Zero ELSE Add(Head(s), SeriesSum(Tail(s)))

\* (cumulative / cumulative.cummax() - 1).min()
MaxDrawdown(cumulative) == SeriesMin(MinusOne(DivSeries(cumulative, CumMax(cumulative))))

\* Series.std() squared: sample variance (ddof = 1) of the defined cells,
\* NaN when fewer than two cells are defined
Variance(s) ==
    LET xs   == DropNa(s)
        cnt  == Len(xs)
        mean == Div(SeriesSum(xs), Int2F(cnt))
        sq   == [k \in 1..cnt |-> Mul(Sub(xs[k], mean), Sub(xs[k], mean))]
    IN  IF cnt < 2 THEN NaN ELSE Div(SeriesSum(sq), Int2F(cnt - 1))

TradingDays == 252

\* formatted with ":.2%": "nan%" for NaN, else the value in hundredths of a
\* percent, rounded half to even
FormatPct(x) ==
    IF ~IsFinite(x) THEN [text |-> IF IsNaN(x) THEN "nan%" ELSE "inf%", bp |-> 0]
    ELSE LET num == x.n * 10000
             q   == num \div x.d
             r2  == 2 * (num % x.d)
         IN  [text |-> "pct",
              bp   |-> IF r2 > x.d \/ (r2 = x.d /\ q % 2 = 1) THEN q + 1 ELSE q]

\* variant: the quotient taken whatever the volatility
SharpeOf_Unguarded(annual_return, volatility) ==
    [zero |-> FALSE, num |-> annual_return, den |-> volatility]

\* annual_return / volatility if volatility > 0 else 0.  sqrt(sq) > 0 exactly
\* when sq > 0; a NaN volatility compares False and takes the else branch
SharpeOf(annual_return, volatility) ==
    IF Gt(volatility.sq, Zero)
    THEN [zero |-> FALSE, num |-> annual_return, den |-> volatility]
    ELSE [zero |-> TRUE, num |-> annual_return, den |-> volatility]

\* calculate_metrics: the values it computes.  A power and a square root are
\* kept symbolic: annual_return stands for base^(252/periods) - 1 and
\* volatility for sqrt(sq), sq = variance * 252.
calculate_metrics(frame) ==
    IF Len(frame.Cumulative_Strategy) = 0
    THEN [raised |-> "IndexError"]
    ELSE LET last          == frame.Cumulative_Strategy[Len(frame.Cumulative_Strategy)]
             total_return  == Sub(last, One)
             annual_return == [base |-> last, periods |-> Len(frame.Close)]
             volatility    == [sq |-> Mul(Variance(frame.Strategy_Returns), Int2F(TradingDays))]
             sharpe_ratio  == SharpeOf(annual_return, volatility)
             max_drawdown  == MaxDrawdown(frame.Cumulative_Strategy)
         IN  [raised        |-> "none",
              total_return  |-> total_return,
              annual_return |-> annual_return,
              volatility    |-> volatility,
              sharpe_ratio  |-> sharpe_ratio,
              max_drawdown  |-> max_drawdown,
              Total_Return  |-> FormatPct(total_return),
              Max_Drawdown  |-> FormatPct(max_drawdown)]

\* variant: the rate charged on the position held, not on its change
TransactionCosts_OnHolding(position, cost) ==
    [k \in 1..Len(position) |-> IF k = 1 THEN NaN ELSE Mul(AbsF(position[k]), cost)]

TransactionCosts(position, cost) == Scale(AbsSeries(Diff(position)), cost)

\* variant: the costs never subtracted
StrategyReturns_NoCost(position, returns, costs) == MulSeries(position, returns)

StrategyReturns(position, returns, costs) == SubSeries(MulSeries(position, returns), costs)

backtest_frame(frame, sp, lp, cost) ==
    LET sig     == generate_signals(frame, sp, lp)
        returns == PctChange(sig.Close)
        costs   == TransactionCosts(sig.Position, cost)
        sret    == StrategyReturns(sig.Position, returns, costs)
    IN  [Close               |-> sig.Close,
         SMA_short           |-> sig.SMA_short,
         SMA_long            |-> sig.SMA_long,
         Signal              |-> sig.Signal,
         Position            |-> sig.Position,
         Returns             |-> returns,
         Transaction_Costs   |-> costs,
         Strategy_Returns    |-> sret,
         Cumulative_Returns  |-> CumProd(OnePlus(returns)),
         Cumulative_Strategy |-> CumProd(OnePlus(sret))]

-----------------------------------------------------------------------------
(* calculate_additional_metrics *)

\* variant: the quotient taken whatever the drawdown
CalmarOf_Unguarded(annual_return, max_dd) ==
    [zero |-> FALSE, num |-> annual_return, den |-> AbsF(max_dd)]

\* annual_return / abs(max_dd) if max_dd != 0 else 0.  A NaN drawdown is
\* != 0 and takes the quotient
CalmarOf(annual_return, max_dd) ==
    IF max_dd # Zero
    THEN [zero |-> FALSE, num |-> annual_return, den |-> AbsF(max_dd)]
    ELSE [zero |-> TRUE, num |-> annual_return, den |-> AbsF(max_dd)]

\* variant: a flat bar counted as a win
CountPositive_NonNegative(s) == Cardinality({k \in 1..Len(s) : Le(Zero, s[k])})

CountPositive(s) == Cardinality({k \in 1..Len(s) : Gt(s[k], Zero)})

calculate_additional_metrics(strategy_returns) ==
    LET returns       == DropNa(strategy_returns)
        cumulative    == CumProd(OnePlus(returns))
        max_dd        == MaxDrawdown(cumulative)
        annual_return == [base |-> cumulative[Len(cumulative)], periods |-> Len(returns)]
    IN  IF Len(returns) = 0
        THEN [empty |-> TRUE]
        ELSE [empty        |-> FALSE,
              win_rate     |-> Div(Int2F(CountPositive(returns)), Int2F(Len(returns))),
              best_day     |-> SeriesMax(returns),
              worst_day    |-> SeriesMin(returns),
              max_dd       |-> max_dd,
              calmar_ratio |-> CalmarOf(annual_return, max_dd)]

-----------------------------------------------------------------------------
(* Inputs *)

\* closes: three price levels, enough for two moves in the same direction
Prices == {1, 2, 3}

RECURSIVE SeqsUpTo(_, _)
SeqsUpTo(S, k) ==
    IF k = 0 THEN {<<>>}
    ELSE LET shorter == SeqsUpTo(S, k - 1)
         IN  shorter \cup {Append(s, x) : s \in {t \in shorter : Len(t) = k - 1}, x \in S}

\* price series: positive closes, every length 0..MaxLen
PriceSeries == SeqsUpTo({Int2F(p) : p \in Prices}, MaxLen)

Periods == 1..MaxPeriod

\* rates the caller may pass: negative, zero, positive.  Quarters stand for the
\* small fractions of the source (default 0.001) so products stay small.
CostRates == {Rat(-1, 4), Zero, Rat(1, 4)}

\* ta.trend.sma_indicator(close, window): rolling mean, min_periods = window
sma_indicator(close, window) == RollingMean(close, window)

\* the frame handed to the strategy: the closes and the SMA_<w> columns that
\* calculate_technical_indicators attached to it (none on raw prices)
InputFrame(close, windows) ==
    [Close |-> close, SMA |-> [w \in windows |-> sma_indicator(close, w)]]

NoFrame == [Close |-> <<>>]

NoMetrics == [raised |-> "unset"]

NoAdditional == [empty |-> TRUE]

NoResult == [df |-> NoFrame, metrics |-> NoMetrics]

\* a session in which no key was set yet
EmptySession == [key \in {} |-> FALSE]

\* before the first run of any page
NoScreen == [page |-> "none"]

\* SMAStrategy(short_period, long_period) constructed, a frame at hand, nothing
\* computed yet.  The frame is raw prices, or carries the SMA columns of the
\* strategy's own two periods (columns of other windows are never read).
Init ==
    /\ short_period \in Periods
    /\ long_period \in Periods
    /\ \E close \in PriceSeries, windows \in {{}, {short_period, long_period}} :
            data = InputFrame(close, windows)
    /\ transaction_cost = Zero
    /\ pc = "start"
    /\ df = NoFrame
    /\ metrics = NoMetrics
    /\ returns_in = <<>>
    /\ additional = NoAdditional
    /\ app_result = NoResult
    /\ session_state = EmptySession
    /\ screen = NoScreen

\* strategy.generate_signals(data)
GenerateSignals ==
    /\ pc = "start"
    /\ \E frame \in {generate_signals(data, short_period, long_period)} :
            /\ df' = frame
            /\ data' = CallerFrameAfterSignals(data, frame)
    /\ pc' = "signals"
    /\ UNCHANGED <<short_period, long_period, transaction_cost, metrics,
                   returns_in, additional, ui>>

\* strategy.backtest(data, cost): the frame, then calculate_metrics; an
\* exception raised by calculate_metrics leaves the caller without a result
Backtest ==
    /\ pc = "start"
    /\ \E cost \in CostRates :
       \E frame \in {backtest_frame(data, short_period, long_period, cost)} :
       \E m \in {calculate_metrics(frame)} :
            /\ transaction_cost' = cost
            /\ metrics' = m
            /\ df' = IF m.raised = "none" THEN frame ELSE NoFrame
            /\ pc' = IF m.raised = "none" THEN "backtest" ELSE "raised"
            /\ data' = CallerFrameAfterSignals(data, frame)
    /\ UNCHANGED <<short_period, long_period, returns_in, additional, ui>>

\* calculate_additional_metrics(backtest_data['Strategy_Returns'])
AdditionalMetrics ==
    /\ pc = "backtest"
    /\ returns_in' = df.Strategy_Returns
    /\ \E result \in {calculate_additional_metrics(df.Strategy_Returns)} :
            additional' = result
    /\ pc' = "additional"
    /\ UNCHANGED <<data, short_period, long_period, transaction_cost, df, metrics, ui>>

Next == GenerateSignals \/ Backtest \/ AdditionalMetrics

Spec == Init /\ [][Next]_vars

-----------------------------------------------------------------------------
(* calculate_additional_metrics called on its own, on any return series *)

ReturnValues == {NaN, Int2F(-1), Rat(-1, 2), Zero, Rat(1, 2), Int2F(1)}

ReturnSeries == SeqsUpTo(ReturnValues, MaxLen)

InitMetrics ==
    /\ short_period = 20
    /\ long_period = 50
    /\ data = InputFrame(<<>>, {})
    /\ transaction_cost = Zero
    /\ pc = "start"
    /\ df = NoFrame
    /\ metrics = NoMetrics
    /\ returns_in = <<>>
    /\ additional = NoAdditional
    /\ app_result = NoResult
    /\ session_state = EmptySession
    /\ screen = NoScreen

\* calculate_additional_metrics(series)
DirectAdditionalMetrics ==
    /\ pc = "start"
    /\ \E series \in ReturnSeries :
       \E result \in {calculate_additional_metrics(series)} :
            /\ returns_in' = series
            /\ additional' = result
    /\ pc' = "direct"
    /\ UNCHANGED <<data, short_period, long_period, transaction_cost, df, metrics, ui>>

NextMetrics == DirectAdditionalMetrics

SpecMetrics == InitMetrics /\ [][NextMetrics]_vars

-----------------------------------------------------------------------------
(* app.py: simple_sma_backtest, run on the frame SMAStrategy was run on *)

\* df['Signal'] = 0; df['Signal'][short > long] = 1.  The second line is a
\* chained assignment: it reaches df or only a temporary, depending on the
\* pandas in use (written says which)
SimpleSignalOf(s, l, written) == IF written /\ Gt(s, l) THEN Int2F(1) ELSE Zero

simple_sma_backtest(frame, sp, lp, written) ==
    LET n       == Len(frame.Close)
        signal  == [k \in 1..n |-> SimpleSignalOf(frame.SMA[sp][k], frame.SMA[lp][k], written)]
        returns == PctChange(frame.Close)
        sret    == MulSeries(Shift1(signal), returns)
        result  == [Close               |-> frame.Close,
                    Signal              |-> signal,
                    Position            |-> Diff(signal),
                    Returns             |-> returns,
                    Strategy_Returns    |-> sret,
                    Cumulative_Returns  |-> CumProd(OnePlus(returns)),
                    Cumulative_Strategy |-> CumProd(OnePlus(sret))]
    IN  [df |-> result, metrics |-> calculate_metrics(result)]

\* app.py computes the SMA columns of its two sliders before any backtest
InitPolarity ==
    /\ short_period \in Periods
    /\ long_period \in Periods
    /\ \E close \in PriceSeries : data = InputFrame(close, {short_period, long_period})
    /\ transaction_cost = Zero
    /\ pc = "start"
    /\ df = NoFrame
    /\ metrics = NoMetrics
    /\ returns_in = <<>>
    /\ additional = NoAdditional
    /\ app_result = NoResult
    /\ session_state = EmptySession
    /\ screen = NoScreen

\* simple_sma_backtest(data_with_indicators), on a frame that is not empty
SimpleSmaBacktest ==
    /\ pc = "backtest"
    /\ app_result = NoResult
    /\ \E written \in BOOLEAN :
       \E result \in {simple_sma_backtest(data, short_period, long_period, written)} :
            app_result' = result
    /\ UNCHANGED <<data, short_period, long_period, transaction_cost, pc, df, metrics,
                   returns_in, additional, session_state, screen>>

NextPolarity == Backtest \/ SimpleSmaBacktest

SpecPolarity == InitPolarity /\ [][NextPolarity]_vars

-----------------------------------------------------------------------------
(* The Streamlit pages: main.py and pages/1..3 over one st.session_state *)

\* 'key' in st.session_state
Has(s, key) == key \in DOMAIN s

\* st.session_state.key = value
Put(s, key, value) == [x \in DOMAIN s \cup {key} |-> IF x = key THEN value ELSE s[x]]

\* st.session_state.get(key, default)
Get(s, key, default) == IF key \in DOMAIN s THEN s[key] ELSE default

\* what the user may type as ticker; "" is the input left blank
Tickers == {"", "AAPL", "MSFT"}

\* the closes stock.history may return for a ticker, over some date range:
\* no row at all, or that ticker's prices
MarketCloses(ticker) ==
    IF ticker = "AAPL" THEN {<<>>, <<Int2F(1), Int2F(2)>>}
    ELSE IF ticker = "MSFT" THEN {<<>>, <<Int2F(3), Int2F(2), Int2F(1)>>}
    ELSE {<<>>}

\* the return value None
NoneValue == [None |-> TRUE]

\* fetch_stock_data: the history frame, or None when the provider raised
fetch_stock_data(ticker) ==
    {NoneValue} \cup {InputFrame(close, {}) : close \in MarketCloses(ticker)}

\* stock_data is not None and not stock_data.empty
Usable(stock_data) == stock_data # NoneValue /\ Len(stock_data.Close) > 0

\* how a run's screen names what the fetch returned
FetchedAs(stock_data) ==
    IF stock_data = NoneValue THEN "None"
    ELSE IF Len(stock_data.Close) = 0 THEN "empty" ELSE "frame"

\* variant: df = data, the indicator columns written to the caller's frame
CallerFrameAfterIndicators_InPlace(frame, result) == result

\* df = data.copy() in calculate_technical_indicators
CallerFrameAfterIndicators(frame, result) == frame

\* calculate_technical_indicators: a copy with SMA_<sma_short> and
\* SMA_<sma_long> attached (the EMA, RSI and band columns are not read by the
\* strategy and are left out)
calculate_technical_indicators(frame, sma_short, sma_long) ==
    [Close |-> frame.Close,
     SMA   |-> [w \in DOMAIN frame.SMA \cup {sma_short, sma_long} |->
                  IF w \in {sma_short, sma_long}
                  THEN sma_indicator(frame.Close, w)
                  ELSE frame.SMA[w]]]

\* slider defaults
DefaultSmaShort == 20

DefaultSmaLong == 50

\* positions of the two SMA sliders tried (ranges 5..50 and 20..200)
SmaShortChoices == {DefaultSmaShort}

SmaLongChoices == {DefaultSmaShort, DefaultSmaLong}

\* the default of backtest's transaction_cost parameter
DefaultTransactionCost == Rat(1, 1000)

\* "Transaction Cost (bps)" number_input, 0..100, default 5
DefaultCostBps == 5

CostBpsChoices == {DefaultCostBps, 10}

\* SMAStrategy(sp, lp).backtest(data): no rate is passed, the parameter's
\* default applies
backtest_default(frame, sp, lp) ==
    LET result == backtest_frame(frame, sp, lp, DefaultTransactionCost)
    IN  [df |-> result, metrics |-> calculate_metrics(result),
         applied_cost |-> DefaultTransactionCost]

\* what a run did and rendered
Screen(page) ==
    [page             |-> page,
     fetched          |-> "none",
     error            |-> FALSE,
     warning          |-> FALSE,
     welcome          |-> FALSE,
     backtest_section |-> FALSE,
     ran_backtest     |-> FALSE,
     raised           |-> "none",
     ticker           |-> "",
     cost_bps         |-> -1,
     applied_cost     |-> NaN,
     shown            |-> NoResult,
     additional       |-> NoAdditional]

InitSession ==
    /\ short_period = DefaultSmaShort
    /\ long_period = DefaultSmaLong
    /\ data = InputFrame(<<>>, {})
    /\ transaction_cost = Zero
    /\ pc = "start"
    /\ df = NoFrame
    /\ metrics = NoMetrics
    /\ returns_in = <<>>
    /\ additional = NoAdditional
    /\ app_result = NoResult
    /\ session_state = EmptySession
    /\ screen = Screen("none")

\* the strategy's own variables, which no page run touches
strategy == <<data, short_period, long_period, transaction_cost, pc, df, metrics,
              returns_in, additional, app_result>>

\* variant: the section left on after a failed fetch
HomeAfterFailedFetch_KeepShown(s) == s

\* variant: the stored analysis dropped after a failed fetch
HomeAfterFailedFetch_Clear(s) ==
    [x \in DOMAIN s \ {"stock_data", "data_with_indicators"} |->
        IF x = "show_backtest" THEN FALSE ELSE s[x]]

\* main.py, else branch of the fetch check: show_backtest = False
HomeAfterFailedFetch(s) == Put(s, "show_backtest", FALSE)

\* main.py, a fetch that returned rows: stock_data, controls and
\* data_with_indicators stored
HomeAfterFetch(s, stock_data, controls) ==
    LET with_indicators == calculate_technical_indicators(stock_data, controls.sma_short,
                                                          controls.sma_long)
        s1 == Put(s, "stock_data", CallerFrameAfterIndicators(stock_data, with_indicators))
        s2 == Put(s1, "controls", controls)
    IN  Put(s2, "data_with_indicators", with_indicators)

\* one run of main.py.  click is the button pressed for this run, if any
HomeRun ==
    \E click \in {"none", "run_analysis", "backtest_button"} :
    \E ticker \in Tickers, sma_short \in SmaShortChoices, sma_long \in SmaLongChoices :
    \E stock_data \in fetch_stock_data(ticker) :
        LET controls == [ticker |-> ticker, sma_short |-> sma_short, sma_long |-> sma_long,
                         run_analysis |-> click = "run_analysis"]
            s0       == IF Has(session_state, "show_backtest") THEN session_state
                        ELSE Put(session_state, "show_backtest", FALSE)
            analyse  == controls.run_analysis /\ ticker # ""
            s1       == IF ~analyse THEN s0
                        ELSE IF Usable(stock_data)
                             THEN HomeAfterFetch(Put(s0, "show_backtest", TRUE), stock_data, controls)
                             ELSE HomeAfterFailedFetch(Put(s0, "show_backtest", TRUE))
            section  == s1.show_backtest /\ Has(s1, "data_with_indicators")
            stored   == Get(s1, "controls", [sma_short |-> DefaultSmaShort,
                                             sma_long |-> DefaultSmaLong])
            pressed  == section /\ click = "backtest_button"
        IN  /\ click # "none" => screen.page = "home"
            /\ click = "backtest_button" => screen.backtest_section
            /\ click # "run_analysis" =>
                  /\ ticker = "AAPL"
                  /\ sma_short = DefaultSmaShort
                  /\ sma_long = DefaultSmaLong
            /\ ~analyse => stock_data = NoneValue
            /\ IF pressed
               THEN \E result \in {backtest_default(s1.data_with_indicators,
                                                    stored.sma_short, stored.sma_long)} :
                       /\ session_state' =
                             Put(s1, "data_with_indicators",
                                 CallerFrameAfterSignals(s1.data_with_indicators, result.df))
                       /\ screen' = [Screen("home") EXCEPT
                                        !.backtest_section = TRUE,
                                        !.ran_backtest = TRUE,
                                        !.applied_cost = result.applied_cost,
                                        !.shown = [df |-> result.df, metrics |-> result.metrics]]
               ELSE /\ session_state' = s1
                    /\ screen' = [Screen("home") EXCEPT
                                     !.fetched = IF analyse THEN FetchedAs(stock_data) ELSE "none",
                                     !.error = analyse /\ ~Usable(stock_data),
                                     !.backtest_section = section,
                                     !.welcome = ~section /\ ~s1.show_backtest]
            /\ UNCHANGED strategy

\* variant: stock_data not stored, the earlier one kept
StockAfterFetch_NoStockData(s, stock_data, ticker) ==
    LET with_indicators == calculate_technical_indicators(stock_data, DefaultSmaShort,
                                                          DefaultSmaLong)
        s2 == Put(s, "current_ticker", ticker)
        s3 == Put(s2, "data_with_indicators", with_indicators)
    IN  Put(s3, "analysis_params", [show_ema |-> TRUE, show_rsi |-> TRUE,
                                    show_bollinger |-> FALSE])

\* pages/1_Stock_Analysis.py, a fetch that returned rows: stock_data,
\* current_ticker, data_with_indicators (SMA 20 and 50) and analysis_params
\* stored (the toggles at their defaults)
StockAfterFetch(s, stock_data, ticker) ==
    LET with_indicators == calculate_technical_indicators(stock_data, DefaultSmaShort,
                                                          DefaultSmaLong)
        s1 == Put(s, "stock_data", CallerFrameAfterIndicators(stock_data, with_indicators))
        s2 == Put(s1, "current_ticker", ticker)
        s3 == Put(s2, "data_with_indicators", with_indicators)
    IN  Put(s3, "analysis_params", [show_ema |-> TRUE, show_rsi |-> TRUE,
                                    show_bollinger |-> FALSE])

\* one run of pages/1_Stock_Analysis.py; "quick" is one of the popular-ticker
\* buttons, which sets selected_ticker and reruns the script
StockAnalysisRun ==
    \E click \in {"none", "run_analysis", "quick"} :
    \E ticker \in Tickers :
    \E stock_data \in fetch_stock_data(ticker) :
        LET analyse == click = "run_analysis" /\ ticker # ""
        IN  /\ click # "none" => screen.page = "stock"
            /\ click = "quick" => screen.welcome /\ ticker = "MSFT"
            /\ click = "none" => ticker = "AAPL"
            /\ ~analyse => stock_data = NoneValue
            /\ session_state' =
                  IF analyse
                  THEN IF Usable(stock_data)
                       THEN StockAfterFetch(session_state, stock_data, ticker)
                       ELSE session_state
                  ELSE IF click = "quick"
                       THEN Put(session_state, "selected_ticker", ticker)
                       ELSE session_state
            /\ screen' = [Screen("stock") EXCEPT
                             !.fetched = IF analyse THEN FetchedAs(stock_data) ELSE "none",
                             !.error = analyse /\ ~Usable(stock_data),
                             !.welcome = ~analyse,
                             !.ticker = IF analyse /\ Usable(stock_data) THEN ticker ELSE ""]
            /\ UNCHANGED strategy

\* pages/2_Strategy_Backtest.py: the results stored for the metrics page
BacktestResults(result, sma_short, sma_long, cost_bps) ==
    [data       |-> result.df,
     metrics    |-> result.metrics,
     parameters |-> [sma_short        |-> sma_short,
                     sma_long         |-> sma_long,
                     transaction_cost |-> Rat(cost_bps, 10000)]]

\* one run of pages/2_Strategy_Backtest.py.  With a strategy type other than
\* "SMA Crossover" the sliders are not drawn and the defaults stand
BacktestPageRun ==
    \E click \in {"none", "run_backtest"} :
    \E strategy_type \in {"SMA Crossover", "other"} :
    \E sma_short \in SmaShortChoices, sma_long \in SmaLongChoices, cost_bps \in CostBpsChoices :
        /\ click # "none" => screen.page = "backtest" /\ ~screen.warning
        /\ strategy_type = "other" =>
              /\ sma_short = DefaultSmaShort
              /\ sma_long = DefaultSmaLong
              /\ cost_bps = DefaultCostBps
        /\ IF ~Has(session_state, "data_with_indicators")
           THEN /\ screen' = [Screen("backtest") EXCEPT !.warning = TRUE]
                /\ session_state' = session_state
           ELSE LET shown_ticker == Get(session_state, "current_ticker", "Unknown")
                IN  IF click = "run_backtest"
                    THEN \E result \in {backtest_default(session_state.data_with_indicators,
                                                         sma_short, sma_long)} :
                            /\ session_state' =
                                  Put(Put(session_state, "data_with_indicators",
                                          CallerFrameAfterSignals(
                                              session_state.data_with_indicators, result.df)),
                                      "backtest_results",
                                      BacktestResults(result, sma_short, sma_long, cost_bps))
                            /\ screen' = [Screen("backtest") EXCEPT
                                             !.ticker = shown_ticker,
                                             !.cost_bps = cost_bps,
                                             !.ran_backtest = TRUE,
                                             !.applied_cost = result.applied_cost,
                                             !.shown = [df |-> result.df,
                                                        metrics |-> result.metrics]]
                    ELSE /\ session_state' = session_state
                         /\ screen' = [Screen("backtest") EXCEPT !.ticker = shown_ticker,
                                                                 !.cost_bps = cost_bps]
        /\ UNCHANGED strategy

\* variant: the guard looking at the wrong key
MetricsGuard_WrongKey(s) == Has(s, "data_with_indicators")

\* 'backtest_results' not in st.session_state, negated
MetricsGuard(s) == Has(s, "backtest_results")

\* one run of pages/3_Performance_Metrics.py
MetricsPageRun ==
    /\ IF ~MetricsGuard(session_state)
       THEN screen' = [Screen("metrics") EXCEPT !.warning = TRUE]
       ELSE IF ~Has(session_state, "backtest_results")
       THEN screen' = [Screen("metrics") EXCEPT !.raised = "AttributeError"]
       ELSE LET results == session_state.backtest_results
            IN  \E result \in {calculate_additional_metrics(results.data.Strategy_Returns)} :
                    screen' = [Screen("metrics") EXCEPT
                                  !.shown = [df |-> results.data, metrics |-> results.metrics],
                                  !.additional = result]
    /\ session_state' = session_state
    /\ UNCHANGED strategy

NextSession == HomeRun \/ StockAnalysisRun \/ BacktestPageRun \/ MetricsPageRun

SpecSession == InitSession /\ [][NextSession]_vars

-----------------------------------------------------------------------------
(* Properties.  Bar i of the text is index i + 1 here. *)

HasSignals == pc \in {"signals", "backtest", "additional"}

HasBacktest == pc \in {"backtest", "additional"}

Bars == 1..Len(data.Close)

\* C1: Position is 0 at bar 0 and, at every later bar, the Signal of the bar
\* before it; never the signal of its own bar.
C1_PositionLagsSignal ==
    HasSignals =>
        /\ Len(df.Position) = Len(data.Close)
        /\ \A k \in Bars :
              df.Position[k] = IF k = 1 THEN Zero ELSE df.Signal[k - 1]

\* a run where the signal changes between two bars, so a lag of zero bars
\* would show
C1_Witness ==
    /\ pc = "signals"
    /\ \E k \in Bars : k >= 2 /\ df.Signal[k - 1] # Zero /\ df.Signal[k] # df.Signal[k - 1]
                       /\ df.Position[k] = df.Signal[k - 1]

\* both SMAs defined at index k and short strictly above / below long
Above(frame, k) ==
    /\ IsFinite(frame.SMA_short[k]) /\ IsFinite(frame.SMA_long[k])
    /\ frame.SMA_short[k].n * frame.SMA_long[k].d > frame.SMA_long[k].n * frame.SMA_short[k].d

Below(frame, k) ==
    /\ IsFinite(frame.SMA_short[k]) /\ IsFinite(frame.SMA_long[k])
    /\ frame.SMA_short[k].n * frame.SMA_long[k].d < frame.SMA_long[k].n * frame.SMA_short[k].d

Trinary == {Int2F(-1), Zero, Int2F(1)}

\* C2: Signal is +1 where the short SMA is strictly above the long one, -1
\* where it is strictly below, 0 where they are equal or one is undefined;
\* Signal and Position take no value outside {-1, 0, +1}.
C2_SignalRule ==
    HasSignals =>
        \A k \in Bars :
            /\ df.Signal[k] = IF Above(df, k) THEN Int2F(1)
                              ELSE IF Below(df, k) THEN Int2F(-1)
                              ELSE Zero
            /\ df.Signal[k] \in Trinary
            /\ df.Position[k] \in Trinary

\* one run showing all four cases: above, below, equal, undefined
C2_Witness ==
    /\ pc = "signals"
    /\ \E k \in Bars : Above(df, k) /\ df.Signal[k] = Int2F(1)
    /\ \E k \in Bars : Below(df, k) /\ df.Signal[k] = Int2F(-1)
    /\ \E k \in Bars : IsFinite(df.SMA_short[k]) /\ df.SMA_short[k] = df.SMA_long[k]
                       /\ df.Signal[k] = Zero
    /\ \E k \in Bars : IsNaN(df.SMA_long[k]) /\ df.Signal[k] = Zero

\* the series that keeps the closes of bars before index k and ends at index
\* k with the close x
CutAt(close, k, x) == Append(SubSeq(close, 1, k - 1), Int2F(x))

\* C3: no look-ahead.  With no SMA column attached, Position at bar i is the
\* same for every series with the same closes before bar i.  Two such series
\* are both compared with the series cut after bar i, whatever close it has
\* there, so they agree with each other.
C3_NoLookAhead ==
    (pc = "signals" /\ DOMAIN data.SMA = {}) =>
        \A k \in Bars : \A x \in Prices :
            generate_signals(InputFrame(CutAt(data.Close, k, x), {}),
                             short_period, long_period).Position[k] = df.Position[k]

\* a bar whose own close decides its Signal while a position is held on it
C3_Witness ==
    /\ pc = "signals"
    /\ DOMAIN data.SMA = {}
    /\ \E k \in Bars : \E x \in Prices :
          /\ df.Position[k] # Zero
          /\ generate_signals(InputFrame(CutAt(data.Close, k, x), {}),
                              short_period, long_period).Signal[k] # df.Signal[k]

\* C4: at every bar i >= 1, Strategy_Returns[i] =
\* Position[i] * (Close[i]/Close[i-1] - 1) - transaction_cost * |Position[i] - Position[i-1]|.
C4_StrategyReturnFormula ==
    HasBacktest =>
        \A k \in Bars : k >= 2 =>
            df.Strategy_Returns[k] =
                Sub(Mul(df.Position[k], Sub(Div(data.Close[k], data.Close[k - 1]), One)),
                    Mul(transaction_cost, AbsF(Sub(df.Position[k], df.Position[k - 1]))))

\* a bar with a price move on which the position flips between -1 and +1
C4_Witness ==
    /\ pc = "backtest"
    /\ Gt(transaction_cost, Zero)
    /\ \E k \in Bars : /\ k >= 2
                       /\ data.Close[k] # data.Close[k - 1]
                       /\ df.Position[k] # Zero
                       /\ df.Position[k] = Neg(df.Position[k - 1])

\* sum of |Position[i] - Position[i-1]| over the bars i >= 1
RECURSIVE Turnover(_, _)
Turnover(position, k) ==
    IF k < 2 THEN Zero
    ELSE Add(Turnover(position, k - 1), AbsF(Sub(position[k], position[k - 1])))

\* C5: cost is charged on position changes only.  Where Position[i] =
\* Position[i-1] the cost entry is 0 and the strategy return is Position[i]
\* times the market return; the costs of a backtest add up to
\* transaction_cost times the sum of |Position[i] - Position[i-1]|.
C5_CostOnChangesOnly ==
    HasBacktest =>
        /\ \A k \in Bars : (k >= 2 /\ df.Position[k] = df.Position[k - 1]) =>
              /\ df.Transaction_Costs[k] = Zero
              /\ df.Strategy_Returns[k] = Mul(df.Position[k], df.Returns[k])
        /\ SeriesSum(DropNa(df.Transaction_Costs)) =
              Mul(transaction_cost, Turnover(df.Position, Len(df.Position)))

\* a position entered at a cost and then held over a bar with a price move at
\* no cost
C5_Witness ==
    /\ pc = "backtest"
    /\ Gt(transaction_cost, Zero)
    /\ \E k \in Bars : /\ k >= 3
                       /\ df.Position[k] # Zero
                       /\ df.Position[k] = df.Position[k - 1]
                       /\ df.Position[k - 1] # df.Position[k - 2]
                       /\ data.Close[k] # data.Close[k - 1]
                       /\ df.Transaction_Costs[k] = Zero
                       /\ df.Transaction_Costs[k - 1] = transaction_cost

\* C6: both cumulative series are 1 at the first bar.
C6_CumulativeStartsAtOne ==
    (HasBacktest /\ Len(data.Close) >= 1) =>
        /\ df.Cumulative_Strategy[1] = One
        /\ df.Cumulative_Returns[1] = One

\* C7: Returns and Strategy_Returns are undefined at bar 0 and defined at
\* every later bar; every column is as long as the input; the undefined first
\* bar is no observation of calculate_additional_metrics (its win rate is
\* taken over the later bars only, and a one-bar result has no observation).
C7_FirstBarUndefined ==
    /\ HasBacktest =>
          /\ \A k \in Bars :
                /\ IsFinite(df.Returns[k]) <=> k >= 2
                /\ IsFinite(df.Strategy_Returns[k]) <=> k >= 2
                /\ IsNaN(df.Returns[k]) <=> k = 1
                /\ IsNaN(df.Strategy_Returns[k]) <=> k = 1
          /\ \A col \in {df.Close, df.SMA_short, df.SMA_long, df.Signal, df.Position,
                         df.Returns, df.Transaction_Costs, df.Strategy_Returns,
                         df.Cumulative_Returns, df.Cumulative_Strategy} :
                Len(col) = Len(data.Close)
    /\ pc = "additional" =>
          IF Len(data.Close) = 1
          THEN additional.empty
          ELSE /\ ~additional.empty
               /\ additional.win_rate =
                     Rat(Cardinality({k \in Bars : k >= 2 /\ df.Strategy_Returns[k].n > 0}),
                         Len(data.Close) - 1)

\* a result with a winning bar, so the number of observations shows in the
\* win rate
C7_Witness ==
    /\ pc = "additional"
    /\ Len(data.Close) >= 3
    /\ IsNaN(df.Strategy_Returns[1])
    /\ ~additional.empty
    /\ additional.win_rate.n > 0

\* C8: the buy-and-hold cumulative series is the running product of
\* (1 + market return) seeded at 1, so that Cumulative_Returns[i] =
\* Close[i] / Close[0] at every bar i >= 1 of a series of length >= 2.
C8_BuyAndHoldCumulative ==
    (HasBacktest /\ Len(data.Close) >= 2) =>
        \A k \in Bars : k >= 2 =>
            /\ df.Cumulative_Returns[k] = Div(data.Close[k], data.Close[1])
            /\ df.Cumulative_Returns[k] =
                  Mul(IF k = 2 THEN One ELSE df.Cumulative_Returns[k - 1],
                      Add(One, df.Returns[k]))

\* a series that ends away from where it started, after a move in between
C8_Witness ==
    /\ pc = "backtest"
    /\ Len(data.Close) >= 3
    /\ data.Close[Len(data.Close)] # data.Close[1]
    /\ data.Close[2] # data.Close[1]
    /\ df.Cumulative_Returns[Len(data.Close)] =
          Div(data.Close[Len(data.Close)], data.Close[1])

ZeroOrUndefined(x) == IsNaN(x) \/ x = Zero

\* C9: a backtest of a series of length 0 or 1 does not raise; its returns
\* are empty or all undefined and each of its metrics is zero or undefined.
C9_ShortSeriesNoRaise ==
    (Len(data.Close) <= 1 /\ pc \notin {"start", "signals"}) =>
        /\ pc # "raised"
        /\ metrics.raised = "none"
        /\ \A k \in Bars : IsNaN(df.Returns[k]) /\ IsNaN(df.Strategy_Returns[k])
        /\ ZeroOrUndefined(metrics.total_return)
        /\ IsNaN(metrics.annual_return.base)
        /\ ZeroOrUndefined(metrics.volatility.sq)
        /\ metrics.sharpe_ratio.zero
        /\ ZeroOrUndefined(metrics.max_drawdown)

\* the maximum drawdown calculate_additional_metrics computes from the
\* series it was given
GivenMaxDrawdown == MaxDrawdown(CumProd(OnePlus(DropNa(returns_in))))

RECURSIVE NonDecreasing(_)
NonDecreasing(s) ==
    Len(s) < 2 \/ (Le(s[1], s[2]) /\ NonDecreasing(Tail(s)))

\* C10: the max drawdown of calculate_metrics and of
\* calculate_additional_metrics is <= 0 for every return series with a
\* defined return, and exactly 0 when the cumulative series never decreases.
C10_MaxDrawdownNonPositive ==
    /\ (HasBacktest /\ DropNa(df.Strategy_Returns) # <<>>) =>
          /\ Le(metrics.max_drawdown, Zero)
          /\ NonDecreasing(DropNa(df.Cumulative_Strategy)) => metrics.max_drawdown = Zero
    /\ (pc \in {"additional", "direct"} /\ DropNa(returns_in) # <<>>) =>
          /\ Le(GivenMaxDrawdown, Zero)
          /\ additional.max_dd = GivenMaxDrawdown
          /\ NonDecreasing(CumProd(OnePlus(DropNa(returns_in)))) => GivenMaxDrawdown = Zero

\* the indices of a series that hold a number
Defined(s) == {k \in 1..Len(s) : IsFinite(s[k])}

\* the standard deviation of a series is > 0: at least two observations, not
\* all equal
Dispersed(s) ==
    /\ Cardinality(Defined(s)) >= 2
    /\ \E j \in Defined(s), k \in Defined(s) : s[j] # s[k]

\* C11: Sharpe is CAGR / Volatility when Volatility > 0 and exactly 0
\* otherwise, zero and undefined Volatility included; the quotient is never
\* taken over a zero, undefined or infinite volatility.
C11_SharpeGuard ==
    HasBacktest =>
        /\ metrics.sharpe_ratio.zero <=> ~Dispersed(df.Strategy_Returns)
        /\ ~metrics.sharpe_ratio.zero =>
              /\ metrics.sharpe_ratio.num = metrics.annual_return
              /\ metrics.sharpe_ratio.den = metrics.volatility
              /\ IsFinite(metrics.volatility.sq)
              /\ metrics.volatility.sq.n > 0
        /\ metrics.annual_return =
              [base |-> df.Cumulative_Strategy[Len(data.Close)], periods |-> Len(data.Close)]

\* a result of zero volatility over several bars with a price move (Sharpe 0,
\* where the quotient would be 0/0)
C11_Witness ==
    /\ pc = "backtest"
    /\ Len(data.Close) >= 3
    /\ metrics.volatility.sq = Zero
    /\ metrics.sharpe_ratio.zero
    /\ Gt(transaction_cost, Zero)
    /\ \E k \in Bars : k >= 2 /\ data.Close[k] # data.Close[k - 1]

\* C12: calmar_ratio is exactly 0 whenever the max drawdown of the return
\* series is 0, and CAGR / |max drawdown| otherwise, with CAGR the last
\* cumulative value to the power 252 / (number of defined returns), minus 1.
C12_CalmarGuard ==
    (pc = "direct" /\ DropNa(returns_in) # <<>>) =>
        LET cumulative == CumProd(OnePlus(DropNa(returns_in)))
        IN  /\ ~additional.empty
            /\ additional.calmar_ratio.zero <=> GivenMaxDrawdown = Zero
            /\ ~additional.calmar_ratio.zero =>
                  /\ additional.calmar_ratio.num =
                        [base |-> cumulative[Len(cumulative)], periods |-> Len(cumulative)]
                  /\ additional.calmar_ratio.den = AbsF(GivenMaxDrawdown)
                  /\ additional.calmar_ratio.den # Zero

\* a series that gains and never draws down (Calmar 0, where the quotient
\* would be a division by zero)
C12_Witness ==
    /\ pc = "direct"
    /\ ~additional.empty
    /\ additional.max_dd = Zero
    /\ additional.calmar_ratio.zero
    /\ Gt(additional.calmar_ratio.num.base, One)

\* base^(252/periods) - 1 is the same number for both: same base, and the same
\* exponent unless the base is 0 or 1, whose every positive power is itself
SamePower(a, b) ==
    /\ a.base = b.base
    /\ a.periods = b.periods \/ a.base \in {Zero, One}

\* C13: for one backtest result the Calmar ratio of
\* calculate_additional_metrics(Strategy_Returns) is the CAGR reported by
\* calculate_metrics over the absolute max drawdown reported by
\* calculate_metrics: same terminal value, same number of periods in the
\* exponent, same drawdown.  Stated for the rates a caller may pass (>= 0).
C13_CalmarMatchesMetrics ==
    (pc = "additional" /\ ~additional.empty /\ Le(Zero, transaction_cost)) =>
        /\ SamePower(additional.calmar_ratio.num, metrics.annual_return)
        /\ additional.calmar_ratio.den = AbsF(metrics.max_drawdown)

\* variance of the defined cells with the divisor their number (ddof = 0)
PopulationVariance(s) ==
    LET xs   == DropNa(s)
        cnt  == Len(xs)
        mean == Div(SeriesSum(xs), Int2F(cnt))
        sq   == [k \in 1..cnt |-> Mul(Sub(xs[k], mean), Sub(xs[k], mean))]
    IN  IF cnt = 0 THEN NaN ELSE Div(SeriesSum(sq), Int2F(cnt))

\* C14: the volatility of calculate_metrics is the population standard
\* deviation (divisor the number of defined observations) of the defined
\* strategy returns times sqrt(252); squared: the population variance times
\* 252.  Stated where there are two observations or more, for a rate >= 0.
C14_PopulationVolatility ==
    (HasBacktest /\ Cardinality(Defined(df.Strategy_Returns)) >= 2
                 /\ Le(Zero, transaction_cost)) =>
        metrics.volatility.sq =
            Mul(PopulationVariance(df.Strategy_Returns), Int2F(TradingDays))

\* C15: win_rate is the number of defined returns strictly above 0 over the
\* number of defined returns, so it lies in [0, 1] and a zero return counts in
\* the denominator only; best_day and worst_day are the maximum and the
\* minimum of the defined returns.
C15_WinRate ==
    (pc = "direct" /\ Defined(returns_in) # {}) =>
        LET obs  == Defined(returns_in)
            wins == {k \in obs : returns_in[k].n > 0}
        IN  /\ ~additional.empty
            /\ additional.win_rate = Rat(Cardinality(wins), Cardinality(obs))
            /\ Le(Zero, additional.win_rate)
            /\ Le(additional.win_rate, One)
            /\ \E k \in obs : returns_in[k] = additional.best_day
            /\ \A k \in obs : Le(returns_in[k], additional.best_day)
            /\ \E k \in obs : returns_in[k] = additional.worst_day
            /\ \A k \in obs : Le(additional.worst_day, returns_in[k])

\* a series with an undefined cell, a flat bar, a gain and a loss
C15_Witness ==
    /\ pc = "direct"
    /\ \E k \in 1..Len(returns_in) : IsNaN(returns_in[k])
    /\ \E k \in 1..Len(returns_in) : returns_in[k] = Zero
    /\ \E k \in 1..Len(returns_in) : Gt(returns_in[k], Zero)
    /\ \E k \in 1..Len(returns_in) : Lt(returns_in[k], Zero)
    /\ additional.win_rate = Rat(1, 3)

\* C16: on an all-zero, all-undefined or empty strategy return series neither
\* function raises; every metric is its fallback (0 or undefined), and
\* calculate_additional_metrics returns an empty result when no return is
\* defined.  Stated for the rates a caller may pass (>= 0).
C16_DegenerateSeries ==
    LET sr == backtest_frame(data, short_period, long_period,
                             transaction_cost).Strategy_Returns
    IN  (/\ pc \notin {"start", "signals"}
         /\ Le(Zero, transaction_cost)
         /\ \A k \in 1..Len(sr) : ZeroOrUndefined(sr[k])) =>
            /\ pc # "raised"
            /\ metrics.raised = "none"
            /\ ZeroOrUndefined(metrics.total_return)
            /\ metrics.annual_return.base \in {One, NaN}
            /\ ZeroOrUndefined(metrics.volatility.sq)
            /\ metrics.sharpe_ratio.zero
            /\ ZeroOrUndefined(metrics.max_drawdown)
            /\ pc = "additional" =>
                  /\ additional.empty <=> Defined(sr) = {}
                  /\ ~additional.empty =>
                        /\ additional.win_rate = Zero
                        /\ additional.best_day = Zero
                        /\ additional.worst_day = Zero
                        /\ additional.calmar_ratio.zero

\* C17: backtest called with a negative transaction_cost fails with an error
\* about that precondition; it never returns a result in which the negative
\* cost was applied.
C17_NegativeCostRejected ==
    (pc \notin {"start", "signals"} /\ Lt(transaction_cost, Zero)) =>
        /\ pc = "raised"
        /\ metrics.raised \notin {"none", "IndexError"}

\* C18: an SMA whose period exceeds the length of the series is undefined at
\* every bar; Signal and Position are then 0 at every bar, and the backtest's
\* strategy return and transaction cost are 0 at every bar i >= 1.
C18_PeriodBeyondLength ==
    LET beyond == short_period > Len(data.Close) \/ long_period > Len(data.Close)
    IN  /\ HasSignals =>
              /\ short_period > Len(data.Close) => \A k \in Bars : IsNaN(df.SMA_short[k])
              /\ long_period > Len(data.Close) => \A k \in Bars : IsNaN(df.SMA_long[k])
              /\ beyond => \A k \in Bars : df.Signal[k] = Zero /\ df.Position[k] = Zero
        /\ (HasBacktest /\ beyond) =>
              \A k \in Bars : k >= 2 =>
                  /\ df.Strategy_Returns[k] = Zero
                  /\ df.Transaction_Costs[k] = Zero

\* a backtest at a cost over moving prices with the short SMA defined and the
\* long one beyond the series
C18_Witness ==
    /\ pc = "backtest"
    /\ Len(data.Close) >= 2
    /\ short_period <= Len(data.Close)
    /\ long_period > Len(data.Close)
    /\ Gt(transaction_cost, Zero)
    /\ data.Close[2] # data.Close[1]
    /\ IsFinite(df.SMA_short[Len(data.Close)])
    /\ df.Strategy_Returns[Len(data.Close)] = Zero

\* the sum of the closes (whole numbers) of indices lo..hi
RECURSIVE CloseSum(_, _, _)
CloseSum(close, lo, hi) ==
    IF lo > hi THEN 0 ELSE close[hi].n + CloseSum(close, lo, hi - 1)

\* col is the SMA of period w of close: as long as close, undefined at the
\* first w - 1 bars, then w times the cell is the sum of the last w closes
IsSma(col, w, close) ==
    /\ Len(col) = Len(close)
    /\ \A k \in 1..Len(close) :
          IF k < w THEN IsNaN(col[k])
          ELSE /\ IsFinite(col[k])
               /\ col[k].n * w = col[k].d * CloseSum(close, k - w + 1, k)

\* C19: the SMA of period w computed by generate_signals, and the one
\* attached by calculate_technical_indicators, is undefined at bars 0..w-2,
\* equals the arithmetic mean of Close[i-w+1..i] at every bar i >= w-1, and is
\* as long as the input.
C19_SmaDefinition ==
    /\ \A w \in DOMAIN data.SMA : IsSma(data.SMA[w], w, data.Close)
    /\ HasSignals =>
          /\ IsSma(df.SMA_short, short_period, data.Close)
          /\ IsSma(df.SMA_long, long_period, data.Close)

\* an SMA computed by generate_signals itself with undefined bars and a mean
\* that is a fraction
C19_Witness ==
    /\ pc = "signals"
    /\ DOMAIN data.SMA = {}
    /\ long_period >= 2
    /\ Len(data.Close) > long_period
    /\ IsNaN(df.SMA_long[long_period - 1])
    /\ df.SMA_long[Len(data.Close)].d > 1
    /\ df.SMA_long[Len(data.Close)] # df.SMA_long[Len(data.Close) - 1]

\* C22: one signal polarity.  At every bar where both SMAs are defined and
\* the short one is below the long one, generate_signals and app.py's
\* simple_sma_backtest give the same Signal, and at zero transaction cost the
\* two backtests give the same Strategy_Returns.
C22_OnePolarity ==
    (pc = "backtest" /\ app_result # NoResult /\ Le(Zero, transaction_cost)) =>
        /\ \A k \in Bars : Below(df, k) => app_result.df.Signal[k] = df.Signal[k]
        /\ transaction_cost = Zero =>
              \A k \in Bars : k >= 2 =>
                  app_result.df.Strategy_Returns[k] = df.Strategy_Returns[k]

\* what C30 says of the frame: no signal, no position, no return, no cost
FlatFrame ==
    \A k \in Bars :
        /\ df.SMA_short[k] = df.SMA_long[k]
        /\ df.Signal[k] = Zero
        /\ df.Position[k] = Zero
        /\ IsNaN(df.Strategy_Returns[k]) \/ df.Strategy_Returns[k] = Zero
        /\ IsNaN(df.Transaction_Costs[k]) \/ df.Transaction_Costs[k] = Zero

RawFrame(frame) == DOMAIN frame = {"Close", "SMA"} /\ DOMAIN frame.SMA = {}

\* C21: generate_signals, backtest and calculate_technical_indicators leave
\* the frame passed to them unchanged.  The stock_data kept in the session is
\* the object calculate_technical_indicators was called on and stays as
\* fetched; a run that backtests leaves data_with_indicators, the object
\* handed to backtest, as it was.
C21_InputUnchanged ==
    /\ [](Has(session_state, "stock_data") => RawFrame(session_state.stock_data))
    /\ [][(screen'.ran_backtest /\ Has(session_state, "data_with_indicators")) =>
              session_state'.data_with_indicators = session_state.data_with_indicators]_vars

\* a backtest run on the page: its frame has derived columns, the frame in
\* the session has none of them
C21_Witness ==
    /\ screen.page = "backtest"
    /\ screen.ran_backtest
    /\ "Signal" \in DOMAIN screen.shown.df
    /\ DOMAIN session_state.data_with_indicators = {"Close", "SMA"}
    /\ RawFrame(session_state.stock_data)
    /\ DOMAIN session_state.data_with_indicators.SMA # {}

\* C23: a backtest started from the Strategy Backtest page charges the rate
\* entered in the sidebar: the rate applied equals the rate displayed and the
\* rate stored in backtest_results['parameters']['transaction_cost'].
C23_SidebarRateApplied ==
    (screen.page = "backtest" /\ screen.ran_backtest) =>
        /\ screen.applied_cost = Rat(screen.cost_bps, 10000)
        /\ screen.applied_cost = session_state.backtest_results.parameters.transaction_cost

\* C24: the metrics page displays results only after a backtest was run on
\* the backtest page, and a backtest is run only after an analysis fetched
\* rows and stored data_with_indicators; otherwise each page shows its
\* warning and computes nothing.
C24_PageOrder ==
    /\ []((screen.page = "metrics" /\ screen.shown # NoResult) =>
              Has(session_state, "backtest_results"))
    /\ [][(~Has(session_state, "backtest_results") /\ Has(session_state', "backtest_results")) =>
              (screen'.page = "backtest" /\ screen'.ran_backtest)]_vars
    /\ [](screen.ran_backtest =>
              /\ Has(session_state, "data_with_indicators")
              /\ Len(session_state.data_with_indicators.Close) > 0)
    /\ [][(~Has(session_state, "data_with_indicators")
              /\ Has(session_state', "data_with_indicators")) =>
              (screen'.page \in {"home", "stock"} /\ screen'.fetched = "frame")]_vars
    /\ []((screen.page = "metrics" /\ ~Has(session_state, "backtest_results")) =>
              (screen.warning /\ screen.shown = NoResult /\ screen.raised = "none"))
    /\ []((screen.page = "backtest" /\ ~Has(session_state, "data_with_indicators")) =>
              (screen.warning /\ ~screen.ran_backtest /\ screen.shown = NoResult))

\* the metrics page visited with data analysed and no backtest run yet: its
\* warning, nothing computed
C24_Witness ==
    /\ screen.page = "metrics"
    /\ screen.warning
    /\ screen.shown = NoResult
    /\ Has(session_state, "data_with_indicators")
    /\ ~Has(session_state, "backtest_results")

\* the ticker whose prices these closes are
TickerOf(close) == CHOOSE t \in Tickers : close \in MarketCloses(t)

\* C25: the ticker named on the Strategy Backtest page is the ticker whose
\* prices are held in data_with_indicators.
C25_TickerNamesData ==
    (screen.page = "backtest" /\ ~screen.warning) =>
        screen.ticker = TickerOf(session_state.data_with_indicators.Close)

\* C26: the results shown on the metrics page were computed from the data
\* now held in data_with_indicators.
C26_ResultsOfCurrentData ==
    (screen.page = "metrics" /\ screen.shown # NoResult) =>
        /\ Has(session_state, "data_with_indicators")
        /\ screen.shown.df.Close = session_state.data_with_indicators.Close

\* C27: a run of main.py whose fetch returned None or no row ends with
\* show_backtest False and renders the welcome screen, not the backtest
\* section, also with data_with_indicators of an earlier analysis in the
\* session; the section is rendered only with show_backtest True and
\* data_with_indicators present.
C27_FailedFetchHidesBacktest ==
    /\ (screen.page = "home" /\ screen.fetched \in {"None", "empty"}) =>
          /\ session_state.show_backtest = FALSE
          /\ screen.welcome
          /\ ~screen.backtest_section
          /\ ~screen.ran_backtest
    /\ (screen.page = "home" /\ screen.backtest_section) =>
          /\ session_state.show_backtest
          /\ Has(session_state, "data_with_indicators")
          /\ ~screen.welcome

\* main.py after a fetch without rows, an earlier analysis still stored
C27_Witness ==
    /\ screen.page = "home"
    /\ screen.fetched = "empty"
    /\ screen.welcome
    /\ Has(session_state, "data_with_indicators")
    /\ Has(session_state, "controls")

StoredKeys == {"stock_data", "data_with_indicators", "controls", "current_ticker"}

\* C28: a failed fetch (None, or no row) leaves stock_data,
\* data_with_indicators, controls and current_ticker as the last successful
\* analysis left them, and the run shows an error message and raises nothing.
C28_FailedFetchKeepsAnalysis ==
    /\ [][screen'.fetched \in {"None", "empty"} =>
              \A key \in StoredKeys :
                  /\ Has(session_state', key) <=> Has(session_state, key)
                  /\ Has(session_state, key) => session_state'[key] = session_state[key]]_vars
    /\ [](screen.fetched \in {"None", "empty"} => (screen.error /\ screen.raised = "none"))

\* a fetch that raised, after analyses on both pages
C28_Witness ==
    /\ screen.fetched = "None"
    /\ screen.error
    /\ \A key \in StoredKeys : Has(session_state, key)

\* C29: whenever both are in the session, stock_data and
\* data_with_indicators come from the same fetch: the same bars and the same
\* closes.
C29_SameFetch ==
    (Has(session_state, "stock_data") /\ Has(session_state, "data_with_indicators")) =>
        session_state.data_with_indicators.Close = session_state.stock_data.Close

\* both stored, after analyses of different tickers on the two pages
C29_Witness ==
    /\ Has(session_state, "stock_data")
    /\ Has(session_state, "data_with_indicators")
    /\ Has(session_state, "controls")
    /\ Has(session_state, "current_ticker")
    /\ session_state.controls.ticker # session_state.current_ticker
    /\ session_state.stock_data.Close # <<>>

====
